---- MODULE Spec2Model ----
(***************************************************************************)
(* A model of src/scm.py: the GIT helper class that resolves the upstream  *)
(* of a branch, translates refs between the local and the remote-tracking  *)
(* namespaces, parses the status output of git and checks its version; and *)
(* GenFakeDiff, which writes the patch that adds a file.                   *)
(*                                                                         *)
(* Python strings are sequences of tokens.  A token is a maximal run of    *)
(* characters that the code never looks inside: "refs", "/", "origin",     *)
(* "branch-", "heads", ...  The string 'refs/branch-heads/foo' is          *)
(* <<"refs","/","branch-","heads","/","foo">>.  The alphabet used here is  *)
(* such that no occurrence of a text the code searches for starts or ends  *)
(* inside a token, so str.startswith, str.endswith, str.replace and the    *)
(* anchored regular expressions act on tokens as they act on characters.   *)
(* Remote names are taken without regular-expression metacharacters, so    *)
(* interpolating one into a pattern matches it literally.                  *)
(***************************************************************************)
EXTENDS Integers, Sequences, FiniteSets, TLC

VARIABLES op, pc, arg, repo, loc, cmds, result,
          current_version, version_fetches

vars == <<op, pc, arg, repo, loc, cmds, result,
          current_version, version_fetches>>

(* What outlives a call: the class attribute GIT.current_version, and how  *)
(* many times the process has run 'git --version'.                         *)
process == <<current_version, version_fetches>>

-----------------------------------------------------------------------------
(* Values that are not strings.  Each is a one-token sequence whose token  *)
(* occurs in no string of the model.                                       *)

None == <<"<None>">>

CalledProcessError == <<"<subprocess2.CalledProcessError>">>

GclientError == <<"<gclient_utils.Error>">>

TypeError == <<"<TypeError>">>

AssertionError == <<"<AssertionError>">>

Exceptions == {CalledProcessError, GclientError, TypeError, AssertionError}

(* Python truthiness of a str-or-None value. *)
Truthy(v) == v # None /\ v # <<>>

-----------------------------------------------------------------------------
(* str methods *)

StartsWith(s, p) == Len(p) <= Len(s) /\ SubSeq(s, 1, Len(p)) = p

EndsWith(s, p) == Len(p) <= Len(s) /\ SubSeq(s, Len(s) - Len(p) + 1, Len(s)) = p

DropFirst(s, n) == SubSeq(s, n + 1, Len(s))

(* s.replace(old, ''): every non-overlapping occurrence, left to right. *)
RECURSIVE Replace(_, _)
Replace(s, old) ==
  IF old = <<>> \/ s = <<>> THEN s
  ELSE IF StartsWith(s, old) THEN Replace(DropFirst(s, Len(old)), old)
  ELSE <<Head(s)>> \o Replace(Tail(s), old)

(* re.match of an anchored alternation of literals, written in the order   *)
(* in which the regular-expression engine tries them: m[0], or None.       *)
RECURSIVE Match(_, _)
Match(alternatives, s) ==
  IF alternatives = <<>> THEN None
  ELSE IF StartsWith(s, Head(alternatives)) THEN Head(alternatives)
  ELSE Match(Tail(alternatives), s)

-----------------------------------------------------------------------------
(* Namespace prefixes *)

refs_ == <<"refs", "/">>

remotes_ == <<"remotes", "/">>

heads_ == <<"heads", "/">>

branch_heads_ == <<"branch-", "heads", "/">>

refs_remotes_ == refs_ \o remotes_

refs_heads_ == refs_ \o heads_

Slash(name) == name \o <<"/">>

-----------------------------------------------------------------------------
(* The ref namespace translator *)

(* '^(refs/(remotes/)?)?branch-heads/' *)
BranchHeadsPattern ==
  << refs_remotes_ \o branch_heads_, refs_ \o branch_heads_, branch_heads_ >>

(* f'^((refs/)?remotes/)?{remote}/|(refs/)?heads/' *)
RemotePattern(remote) ==
  << refs_remotes_ \o Slash(remote), remotes_ \o Slash(remote), Slash(remote),
     refs_heads_, heads_ >>

(* ref.replace(m[0], ''): the text RefToRemoteRef returns as the suffix    *)
(* once m[0] has matched at the start of ref.                              *)
UniqueSuffix(ref, m0) == Replace(ref, m0)

RefToRemoteRef(ref, remote) ==
  LET r  == IF Truthy(ref) THEN ref ELSE <<>>
      m1 == Match(BranchHeadsPattern, r)
      m2 == Match(RemotePattern(remote), r)
  IN  IF m1 # None THEN << refs_remotes_ \o branch_heads_, UniqueSuffix(ref, m1) >>
      ELSE IF m2 # None THEN << refs_remotes_ \o Slash(remote), UniqueSuffix(ref, m2) >>
      ELSE None

RemoteRefToRefAnyRemote(ref, remote) ==
  IF ~Truthy(remote) THEN AssertionError
  ELSE IF ~Truthy(ref) \/ ~StartsWith(ref, refs_) THEN None
  ELSE IF ~StartsWith(ref, refs_remotes_) THEN ref
  ELSE IF StartsWith(ref, refs_remotes_ \o branch_heads_)
       THEN <<"refs">> \o DropFirst(ref, Len(<<"refs", "/", "remotes">>))
  ELSE <<"refs", "/", "heads">> \o DropFirst(ref, Len(refs_remotes_ \o remote))

RemoteRefToRefNoBranchHeads(ref, remote) ==
  IF ~Truthy(remote) THEN AssertionError
  ELSE IF ~Truthy(ref) \/ ~StartsWith(ref, refs_) THEN None
  ELSE IF ~StartsWith(ref, refs_remotes_) THEN ref
  ELSE IF StartsWith(ref, refs_remotes_ \o Slash(remote))
       THEN <<"refs", "/", "heads">> \o DropFirst(ref, Len(refs_remotes_ \o remote))
  ELSE None

RemoteRefToRef(ref, remote) ==
  IF ~Truthy(remote) THEN AssertionError
  ELSE IF ~Truthy(ref) \/ ~StartsWith(ref, refs_) THEN None
  ELSE IF ~StartsWith(ref, refs_remotes_) THEN ref
  ELSE IF StartsWith(ref, refs_remotes_ \o branch_heads_)
       THEN <<"refs">> \o DropFirst(ref, Len(<<"refs", "/", "remotes">>))
  ELSE IF StartsWith(ref, refs_remotes_ \o Slash(remote))
       THEN <<"refs", "/", "heads">> \o DropFirst(ref, Len(refs_remotes_ \o remote))
  ELSE None

(* ''.join(remote_ref); joining None raises TypeError. *)
Join(remote_ref) == IF remote_ref = None THEN TypeError ELSE remote_ref[1] \o remote_ref[2]

-----------------------------------------------------------------------------
(* The command executor and the repository it queries.                     *)
(*   repo.config      key -> value; None: the key is unset and             *)
(*                    'git config <key>' exits non-zero                    *)
(*   repo.symref      ref name -> target; None: 'git symbolic-ref <name>'  *)
(*                    exits non-zero (not a symbolic ref)                  *)
(*   repo.branchesOk  whether 'git branch -r' succeeds                     *)
(*   repo.branches    the names it prints                                  *)
(* The outputs of 'remote set-head', 'ls-remote' and 'diff' are chosen     *)
(* when the command runs.                                                  *)

Cmd(name, a) == [name |-> name, a |-> a]

Dot == <<".">>

HEAD == <<"HEAD">>

BranchKey(branch, key) == <<"branch.">> \o branch \o <<".", key>>

RietveldBranchKey == <<"rietveld.upstream-branch">>

RietveldRemoteKey == <<"rietveld.upstream-remote">>

GetConfig(cfg, key, default) ==
  IF key \in DOMAIN cfg /\ cfg[key] # None THEN cfg[key] ELSE default

SymbolicRef(symref, name) ==
  IF name \in DOMAIN symref THEN symref[name] ELSE None

ShortBranchName(branch) == Replace(branch, refs_heads_)

GetBranch(symref) ==
  LET branchref == SymbolicRef(symref, HEAD)
  IN  IF Truthy(branchref) THEN ShortBranchName(branchref) ELSE None

-----------------------------------------------------------------------------
(* The upstream tracker: the layers of FetchUpstreamTuple *)

origin == <<"origin">>

origin_main == <<"origin", "/", "main">>

origin_master == <<"origin", "/", "master">>

(* remote = GetBranchConfig(cwd, branch, 'remote', '.'); return remote, upstream_branch *)
BranchLayer(cfg, branch, upstream_branch) ==
  << GetConfig(cfg, BranchKey(branch, "remote"), Dot), upstream_branch >>

RietveldLayerNoRemote(cfg, upstream_branch) == << Dot, upstream_branch >>

(* remote = GetConfig(cwd, 'rietveld.upstream-remote', '.'); return remote, upstream_branch *)
RietveldLayer(cfg, upstream_branch) ==
  << GetConfig(cfg, RietveldRemoteKey, Dot), upstream_branch >>

GuessOriginMasterFirst(remote_branches) ==
  IF origin_master \in remote_branches THEN << origin, refs_heads_ \o <<"master">> >>
  ELSE IF origin_main \in remote_branches THEN << origin, refs_heads_ \o <<"main">> >>
  ELSE << None, None >>

(* the guess of the origin remote from the remote branches *)
GuessOrigin(remote_branches) ==
  IF origin_main \in remote_branches THEN << origin, refs_heads_ \o <<"main">> >>
  ELSE IF origin_master \in remote_branches THEN << origin, refs_heads_ \o <<"master">> >>
  ELSE << None, None >>

TranslateAlways(tuple) ==
  LET remote_ref == RefToRemoteRef(tuple[2], tuple[1])
  IN  IF Truthy(tuple[2]) /\ remote_ref # None THEN Join(remote_ref) ELSE tuple[2]

(* GetUpstreamBranch, from the tuple FetchUpstreamTuple returned *)
Translate(tuple) ==
  LET remote_ref == RefToRemoteRef(tuple[2], tuple[1])
  IN  IF tuple[1] # Dot /\ Truthy(tuple[2]) /\ remote_ref # None
      THEN Join(remote_ref)
      ELSE tuple[2]

-----------------------------------------------------------------------------
(* The status parser *)

TAB == "\t"

(* Single characters that \w matches, and one it does not. *)
WordChars == {"M", "A", "R", "1", "0"}

RECURSIVE FirstTab(_, _)
FirstTab(line, i) ==
  IF i > Len(line) THEN 0
  ELSE IF line[i] = TAB THEN i
  ELSE FirstTab(line, i + 1)

(* re.match(r'^(\w)+\t(.+)$', statusline): \w never matches a tab, so the  *)
(* tab of the pattern is the first tab of the line.                        *)
StatusMatches(line) ==
  LET t == FirstTab(line, 1)
  IN  /\ t >= 2
      /\ \A i \in 1..(t - 1) : line[i] \in WordChars
      /\ t < Len(line)

SixSpaces == "      "

(* (f'{m[1][0]}      ', m[2]): a repeated group holds its last repetition, *)
(* so m[1] is the character before the tab.                                *)
StatusPair(line) ==
  LET t == FirstTab(line, 1)
  IN  << <<line[t - 1], SixSpaces>>, DropFirst(line, t) >>

(* The loop over status.splitlines(): one pair per line, or                *)
(* gclient_utils.Error (and no list) when some line does not match.        *)
ParseStatus(status) ==
  IF \E i \in 1..Len(status) : ~StatusMatches(status[i]) THEN GclientError
  ELSE [i \in 1..Len(status) |-> StatusPair(status[i])]

-----------------------------------------------------------------------------
(* Bounds and the inputs drawn within them *)

MaxPieces == 2

MaxStatusLines == 2

RECURSIVE Concats(_, _)
Concats(pieces, n) ==
  IF n = 0 THEN {<<>>}
  ELSE LET shorter == Concats(pieces, n - 1)
       IN  shorter \cup {s \o p : s \in shorter, p \in pieces}

RECURSIVE SeqsUpTo(_, _)
SeqsUpTo(elems, n) ==
  IF n = 0 THEN {<<>>}
  ELSE LET shorter == SeqsUpTo(elems, n - 1)
       IN  shorter \cup {Append(s, e) : s \in shorter, e \in elems}

fork == <<"fork">>

Remotes == {<<>>, origin, fork, <<"branch-", "heads">>}

SuffixPieces == {<<"foo">>, <<"/">>, Slash(origin), heads_, branch_heads_, refs_}

Suffixes == Concats(SuffixPieces, MaxPieces)

Prefixes ==
  {<<>>, refs_, refs_heads_, heads_, refs_remotes_, remotes_, refs_ \o <<"tags", "/">>}
    \cup {refs_remotes_ \o Slash(m) : m \in Remotes}
    \cup {remotes_ \o Slash(m) : m \in Remotes}
    \cup {Slash(m) : m \in Remotes}
    \cup {refs_ \o branch_heads_}

Refs == {None} \cup {p \o s : p \in Prefixes, s \in Suffixes}

feature == <<"feature">>

Branches == {None, <<>>, feature}

HeadRefs == {None, refs_heads_ \o feature}

Sha == <<"0123abc">>

MergeValues == {None, <<>>, refs_heads_ \o <<"main">>, refs_ \o branch_heads_ \o <<"1.2">>}

BranchRemoteValues == {None, <<>>, Dot, origin}

RietveldBranchValues == {None, <<>>, refs_heads_ \o <<"foo">>, Sha}

RietveldRemoteValues == {None, Dot, fork}

RemoteBranchNames == {origin_main, origin_master, <<"fork", "/", "main">>}

Configs ==
  { (BranchKey(feature, "merge") :> m) @@ (BranchKey(feature, "remote") :> r)
      @@ (RietveldBranchKey :> b) @@ (RietveldRemoteKey :> u) :
      m \in MergeValues, r \in BranchRemoteValues,
      b \in RietveldBranchValues, u \in RietveldRemoteValues }

NoFunction == [k \in {} |-> None]

NoRepo == [config |-> NoFunction, symref |-> NoFunction, branchesOk |-> FALSE, branches |-> {}]

CheckoutRepos ==
  { [config |-> c, symref |-> (HEAD :> h), branchesOk |-> TRUE, branches |-> b] :
      c \in Configs, h \in HeadRefs, b \in SUBSET RemoteBranchNames }
  \cup
  { [config |-> c, symref |-> (HEAD :> h), branchesOk |-> FALSE, branches |-> {}] :
      c \in Configs, h \in HeadRefs }

StatusLines ==
  { <<"M", TAB, "foo", "/", "bar.txt">>,
    <<"A", TAB, "foo">>,
    <<"R", "1", "0", "0", TAB, "foo">>,
    <<"M", TAB, "a", TAB, "b">>,
    <<"M", " ", "foo">>,
    <<"?", TAB, "foo">> }

StatusOutputs == SeqsUpTo(StatusLines, MaxStatusLines)

UpstreamArgs == {None, <<>>, refs_remotes_ \o origin_main}

NoArg ==
  [ref |-> None, remote |-> None, branch |-> None, cwdExists |-> FALSE,
   upstream_branch |-> None]

NoLoc ==
  [branch |-> None, upstream_branch |-> None, tuple |-> <<None, None>>,
   ref |-> None, out |-> <<>>]

Init ==
  /\ op = "idle"
  /\ pc = "idle"
  /\ arg = NoArg
  /\ repo = NoRepo
  /\ loc = NoLoc
  /\ cmds = <<>>
  /\ result = None
  /\ current_version = None
  /\ version_fetches = 0

(* An operation has returned or raised: the caller goes on to the next call. *)
Return ==
  /\ pc = "done"
  /\ op' = "idle"
  /\ pc' = "idle"
  /\ arg' = NoArg
  /\ repo' = NoRepo
  /\ loc' = NoLoc
  /\ cmds' = <<>>
  /\ result' = None
  /\ UNCHANGED process

-----------------------------------------------------------------------------
(* The translator's two operations, called on their own *)

CallRefToRemoteRef ==
  /\ pc = "idle"
  /\ \E ref \in Refs, remote \in Remotes :
       /\ op' = "RefToRemoteRef"
       /\ arg' = [NoArg EXCEPT !.ref = ref, !.remote = remote]
       /\ result' = RefToRemoteRef(ref, remote)
  /\ pc' = "done"
  /\ UNCHANGED <<repo, loc, cmds>>
  /\ UNCHANGED process

CallRemoteRefToRef ==
  /\ pc = "idle"
  /\ \E ref \in Refs, remote \in Remotes :
       /\ op' = "RemoteRefToRef"
       /\ arg' = [NoArg EXCEPT !.ref = ref, !.remote = remote]
       /\ result' = RemoteRefToRef(ref, remote)
  /\ pc' = "done"
  /\ UNCHANGED <<repo, loc, cmds>>
  /\ UNCHANGED process

NextTranslator == CallRefToRemoteRef \/ CallRemoteRefToRef \/ Return

SpecTranslator == Init /\ [][NextTranslator]_vars


-----------------------------------------------------------------------------
(* FetchUpstreamTuple, step by step: one action per git command.  It runs  *)
(* on its own, inside GetUpstreamBranch, and inside CaptureStatus when the *)
(* caller names no upstream branch.                                        *)

CallFetchUpstreamTuple ==
  /\ pc = "idle"
  /\ \E branch \in Branches, r \in CheckoutRepos :
       /\ arg' = [NoArg EXCEPT !.branch = branch]
       /\ repo' = r
       /\ loc' = [NoLoc EXCEPT !.branch = branch]
  /\ op' = "FetchUpstreamTuple"
  /\ pc' = "fut_branch"
  /\ UNCHANGED <<cmds, result>>
  /\ UNCHANGED process

CallGetUpstreamBranch ==
  /\ pc = "idle"
  /\ \E r \in CheckoutRepos : repo' = r
  /\ op' = "GetUpstreamBranch"
  /\ pc' = "fut_branch"
  /\ UNCHANGED <<arg, loc, cmds, result>>
  /\ UNCHANGED process

(* if upstream_branch is None: upstream_branch = GIT.GetUpstreamBranch(cwd) *)
CallCaptureStatus ==
  /\ pc = "idle"
  /\ \E upstream_branch \in UpstreamArgs, r \in CheckoutRepos :
       /\ arg' = [NoArg EXCEPT !.upstream_branch = upstream_branch]
       /\ loc' = [NoLoc EXCEPT !.upstream_branch = upstream_branch]
       /\ IF upstream_branch = None
          THEN repo' = r /\ pc' = "fut_branch"
          ELSE repo' = NoRepo /\ pc' = "cs_diff"
  /\ op' = "CaptureStatus"
  /\ UNCHANGED <<cmds, result>>
  /\ UNCHANGED process

(* branch = branch or GIT.GetBranch(cwd) *)
ResolveBranch ==
  /\ pc = "fut_branch"
  /\ IF Truthy(loc.branch)
     THEN UNCHANGED <<loc, cmds>>
     ELSE /\ loc' = [loc EXCEPT !.branch = GetBranch(repo.symref)]
          /\ cmds' = Append(cmds, Cmd("symbolic-ref", HEAD))
  /\ pc' = IF Truthy(loc'.branch) THEN "fut_merge" ELSE "fut_rietveld"
  /\ UNCHANGED <<op, arg, repo, result>>
  /\ UNCHANGED process

AfterMergeFallThrough(upstream_branch) == "fut_rietveld"

(* if upstream_branch := ...: the branch layer answers, or the next layer is tried *)
AfterMerge(upstream_branch) ==
  IF Truthy(upstream_branch) THEN "fut_remote" ELSE "fut_rietveld"

(* if upstream_branch := GIT.GetBranchConfig(cwd, branch, 'merge') *)
ReadBranchMerge ==
  /\ pc = "fut_merge"
  /\ LET key == BranchKey(loc.branch, "merge")
     IN  /\ cmds' = Append(cmds, Cmd("config", key))
         /\ loc' = [loc EXCEPT !.upstream_branch = GetConfig(repo.config, key, None)]
  /\ pc' = AfterMerge(loc'.upstream_branch)
  /\ UNCHANGED <<op, arg, repo, result>>
  /\ UNCHANGED process

ReadBranchRemote ==
  /\ pc = "fut_remote"
  /\ cmds' = Append(cmds, Cmd("config", BranchKey(loc.branch, "remote")))
  /\ loc' = [loc EXCEPT !.tuple = BranchLayer(repo.config, loc.branch, loc.upstream_branch)]
  /\ pc' = "fut_return"
  /\ UNCHANGED <<op, arg, repo, result>>
  /\ UNCHANGED process

(* if upstream_branch := GIT.GetConfig(cwd, 'rietveld.upstream-branch') *)
ReadRietveldBranch ==
  /\ pc = "fut_rietveld"
  /\ cmds' = Append(cmds, Cmd("config", RietveldBranchKey))
  /\ loc' = [loc EXCEPT !.upstream_branch = GetConfig(repo.config, RietveldBranchKey, None)]
  /\ pc' = IF Truthy(loc'.upstream_branch) THEN "fut_rietveld_remote" ELSE "fut_guess"
  /\ UNCHANGED <<op, arg, repo, result>>
  /\ UNCHANGED process

ReadRietveldRemote ==
  /\ pc = "fut_rietveld_remote"
  /\ cmds' = Append(cmds, Cmd("config", RietveldRemoteKey))
  /\ loc' = [loc EXCEPT !.tuple = RietveldLayer(repo.config, loc.upstream_branch)]
  /\ pc' = "fut_return"
  /\ UNCHANGED <<op, arg, repo, result>>
  /\ UNCHANGED process

(* remote_branches = GIT.GetRemoteBranches(cwd): a failure of 'git branch  *)
(* -r' is caught nowhere and ends the whole call.                          *)
ReadRemoteBranches ==
  /\ pc = "fut_guess"
  /\ cmds' = Append(cmds, Cmd("branch", <<"-r">>))
  /\ IF repo.branchesOk
     THEN /\ loc' = [loc EXCEPT !.tuple = GuessOrigin(repo.branches)]
          /\ pc' = "fut_return"
          /\ UNCHANGED result
     ELSE /\ result' = CalledProcessError
          /\ pc' = "done"
          /\ UNCHANGED loc
  /\ UNCHANGED <<op, arg, repo>>
  /\ UNCHANGED process

FetchUpstreamTupleReturn ==
  /\ pc = "fut_return"
  /\ op = "FetchUpstreamTuple"
  /\ result' = loc.tuple
  /\ pc' = "done"
  /\ UNCHANGED <<op, arg, repo, loc, cmds>>
  /\ UNCHANGED process

(* remote, upstream_branch = GIT.FetchUpstreamTuple(cwd), then the rewrite *)
GetUpstreamBranchReturn ==
  /\ pc = "fut_return"
  /\ op \in {"GetUpstreamBranch", "CaptureStatus"}
  /\ IF op = "GetUpstreamBranch"
     THEN /\ result' = Translate(loc.tuple)
          /\ pc' = "done"
          /\ UNCHANGED loc
     ELSE /\ loc' = [loc EXCEPT !.upstream_branch = Translate(loc.tuple)]
          /\ pc' = "cs_diff"
          /\ UNCHANGED result
  /\ UNCHANGED <<op, arg, repo, cmds>>
  /\ UNCHANGED process

(* CaptureStatus from its second test of upstream_branch on: the diff      *)
(* command, whose outcome git decides, and the parse of its output.        *)
CaptureStatusDiff ==
  /\ pc = "cs_diff"
  /\ IF loc.upstream_branch = None
     THEN /\ result' = GclientError
          /\ UNCHANGED <<loc, cmds>>
     ELSE /\ cmds' = Append(cmds, Cmd("diff", loc.upstream_branch \o <<"...">>))
          /\ \E ok \in BOOLEAN, status \in StatusOutputs :
               IF ok
               THEN /\ loc' = [loc EXCEPT !.out = status]
                    /\ result' = ParseStatus(status)
               ELSE /\ status = <<>>
                    /\ result' = CalledProcessError
                    /\ UNCHANGED loc
  /\ pc' = "done"
  /\ UNCHANGED <<op, arg, repo>>
  /\ UNCHANGED process

NextUpstream ==
  \/ CallFetchUpstreamTuple
  \/ CallGetUpstreamBranch
  \/ CallCaptureStatus
  \/ ResolveBranch
  \/ ReadBranchMerge
  \/ ReadBranchRemote
  \/ ReadRietveldBranch
  \/ ReadRietveldRemote
  \/ ReadRemoteBranches
  \/ FetchUpstreamTupleReturn
  \/ GetUpstreamBranchReturn
  \/ CaptureStatusDiff
  \/ Return

SpecUpstream == Init /\ [][NextUpstream]_vars

-----------------------------------------------------------------------------
(* GetRemoteHeadRef, step by step: one action per git command *)

MaxLsRemoteLines == 2

master == <<"master">>

MirrorHead(remote) == refs_remotes_ \o Slash(remote) \o HEAD

RemoteBranch(remote, name) == refs_remotes_ \o Slash(remote) \o name

HeadNames == {<<"main">>, master, <<"not", "master">>}

(* What the working copy holds for the remote: where its mirror of the      *)
(* remote HEAD points, if it exists, and whether a remote-tracking branch   *)
(* whose name ends in 'master' is itself a symbolic ref.                    *)
MirrorTables(remote) ==
  { (MirrorHead(remote) :> h) @@ (RemoteBranch(remote, master) :> a)
      @@ (RemoteBranch(remote, <<"not", "master">>) :> b) :
      h \in {None} \cup {RemoteBranch(remote, n) : n \in HeadNames},
      a \in {None, RemoteBranch(remote, <<"main">>)},
      b \in {None, RemoteBranch(remote, <<"main">>)} }

SymrefLine(ref) == <<"ref: ">> \o ref \o <<TAB, "HEAD">>

LsRemoteLines ==
  { SymrefLine(refs_heads_ \o <<"main">>),
    SymrefLine(refs_heads_ \o master),
    SymrefLine(refs_ \o branch_heads_ \o <<"1.2">>),
    SymrefLine(refs_ \o <<"tags", "/", "v1">>),
    Sha \o <<TAB, "HEAD">>,
    Sha \o <<TAB>> \o refs_heads_ \o <<"main">> }

LsRemoteOutputs == SeqsUpTo(LsRemoteLines, MaxLsRemoteLines)

(* re.match of the pattern 'ref: <anything><TAB>HEAD' on a whole line:     *)
(* the text of its group, or None                                          *)
SymrefOf(line) ==
  IF /\ Len(line) >= 3
     /\ line[1] = "ref: "
     /\ line[Len(line) - 1] = TAB
     /\ line[Len(line)] = "HEAD"
  THEN SubSeq(line, 2, Len(line) - 2)
  ELSE None

(* return f'refs/remotes/{remote}/main' *)
DefaultHeadRef(remote) == RemoteBranch(remote, <<"main">>)

(* The loop over resp.split('\n'): the first symref line decides; with none *)
(* the default is returned.                                                 *)
LsRemoteAnswer(resp, remote) ==
  LET symrefs == SelectSeq([i \in 1..Len(resp) |-> SymrefOf(resp[i])],
                           LAMBDA m : m # None)
  IN  IF symrefs = <<>> THEN DefaultHeadRef(remote)
      ELSE Join(RefToRemoteRef(symrefs[1], remote))

(* if not ref.endswith('master'): return ref *)
Trusted(ref) == ~EndsWith(ref, master)

CallGetRemoteHeadRef ==
  /\ pc = "idle"
  /\ \E remote \in Remotes \ {<<>>}, cwdExists \in BOOLEAN :
       /\ arg' = [NoArg EXCEPT !.remote = remote, !.cwdExists = cwdExists]
       /\ \E t \in MirrorTables(remote) : repo' = [NoRepo EXCEPT !.symref = t]
       /\ pc' = IF cwdExists THEN "grh_local" ELSE "grh_remote"
  /\ op' = "GetRemoteHeadRef"
  /\ UNCHANGED <<loc, cmds, result>>
  /\ UNCHANGED process

ReadLocalHead ==
  /\ pc = "grh_local"
  /\ LET ref == MirrorHead(arg.remote)
         out == SymbolicRef(repo.symref, ref)
     IN  /\ cmds' = Append(cmds, Cmd("symbolic-ref", ref))
         /\ pc' = IF out = None THEN "grh_remote"
                  ELSE IF Trusted(out) THEN "done"
                  ELSE "grh_sethead"
         /\ result' = IF out # None /\ Trusted(out) THEN out ELSE result
         /\ loc' = IF out # None /\ ~Trusted(out) THEN [loc EXCEPT !.ref = out] ELSE loc
  /\ UNCHANGED <<op, arg, repo>>
  /\ UNCHANGED process

(* GIT.Capture(['remote', 'set-head', '-a', remote]): it fails, or it sets  *)
(* the mirror to the branch the remote's HEAD names.                        *)
RefreshHead ==
  /\ pc = "grh_sethead"
  /\ cmds' = Append(cmds, Cmd("remote set-head -a", arg.remote))
  /\ \/ /\ pc' = "grh_remote"
        /\ UNCHANGED repo
     \/ /\ \E n \in {<<"main">>, master} :
             repo' = [repo EXCEPT !.symref[MirrorHead(arg.remote)] =
                                     RemoteBranch(arg.remote, n)]
        /\ pc' = "grh_reread"
  /\ UNCHANGED <<op, arg, loc, result>>
  /\ UNCHANGED process

(* return GIT.Capture(['symbolic-ref', ref]): ref is by now what the first  *)
(* read returned.                                                           *)
RereadHead ==
  /\ pc = "grh_reread"
  /\ LET out == SymbolicRef(repo.symref, loc.ref)
     IN  /\ cmds' = Append(cmds, Cmd("symbolic-ref", loc.ref))
         /\ pc' = IF out = None THEN "grh_remote" ELSE "done"
         /\ result' = IF out = None THEN result ELSE out
  /\ UNCHANGED <<op, arg, repo, loc>>
  /\ UNCHANGED process

(* GIT.Capture(['ls-remote', '--symref', url, 'HEAD']) and what follows *)
QueryRemote ==
  /\ pc = "grh_remote"
  /\ cmds' = Append(cmds, Cmd("ls-remote --symref", <<"url", "HEAD">>))
  /\ \/ /\ result' = DefaultHeadRef(arg.remote)
        /\ UNCHANGED loc
     \/ \E resp \in LsRemoteOutputs :
          /\ loc' = [loc EXCEPT !.out = resp]
          /\ result' = LsRemoteAnswer(resp, arg.remote)
  /\ pc' = "done"
  /\ UNCHANGED <<op, arg, repo>>
  /\ UNCHANGED process

NextRemoteHead ==
  \/ CallGetRemoteHeadRef
  \/ ReadLocalHead
  \/ RefreshHead
  \/ RereadHead
  \/ QueryRemote
  \/ Return

SpecRemoteHead == Init /\ [][NextRemoteHead]_vars

-----------------------------------------------------------------------------
(* GenFakeDiff: the patch that adds a whole file.  The text of the file is  *)
(* a sequence of tokens in which a line terminator is a token of its own.   *)

MaxFileLines == 3

NL == "\n"

(* The line boundaries of str.splitlines met in the files of the model. *)
LineEnds == {NL, "\r\n", "\r"}

(* str.splitlines(True): the lines of a text, each with its terminator; a  *)
(* text that does not end in a terminator ends in a line without one.      *)
RECURSIVE SplitLines(_)
SplitLines(text) ==
  IF text = <<>> THEN <<>>
  ELSE IF \E i \in 1..Len(text) : text[i] \in LineEnds
  THEN LET i == CHOOSE i \in 1..Len(text) :
                  /\ text[i] \in LineEnds
                  /\ \A j \in 1..(i - 1) : text[j] \notin LineEnds
       IN  <<SubSeq(text, 1, i)>> \o SplitLines(DropFirst(text, i))
  ELSE <<text>>

(* filename.replace(os.sep, '/') *)
ReplaceSep(filename, sep) ==
  [i \in 1..Len(filename) |-> IF filename[i] = sep THEN "/" ELSE filename[i]]

(* '=' * 67 *)
SeparatorWidth == 67

Repeat(char, n) == [i \in 1..n |-> char]

Digits == <<"0", "1", "2", "3", "4", "5", "6", "7", "8", "9">>

(* '%d' of a number that is not negative *)
RECURSIVE Decimal(_)
Decimal(n) ==
  IF n < 10 THEN <<Digits[n + 1]>>
  ELSE Decimal(n \div 10) \o <<Digits[(n % 10) + 1]>>

(* The loop that writes '+' and then the line, for every line. *)
RECURSIVE PlusLines(_)
PlusLines(file_content) ==
  IF file_content = <<>> THEN <<>>
  ELSE <<"+">> \o Head(file_content) \o PlusLines(Tail(file_content))

GenFakeDiffRawName(filename, text, sep) ==
  LET file_content == SplitLines(text)
      nb_lines == Len(file_content)
  IN  <<"Index: ">> \o filename \o <<NL>>
        \o Repeat("=", SeparatorWidth) \o <<NL>>
        \o <<"--- ">> \o filename \o <<NL>>
        \o <<"+++ ">> \o filename \o <<NL>>
        \o <<"@@ -0,0 +1,">> \o Decimal(nb_lines) \o <<" @@", NL>>
        \o PlusLines(file_content)

(* text is what gclient_utils.FileRead(filename, 'rb') returns, sep is     *)
(* os.sep of the platform.                                                 *)
GenFakeDiff(filename, text, sep) ==
  LET file_content == SplitLines(text)
      name == ReplaceSep(filename, sep)
      nb_lines == Len(file_content)
  IN  <<"Index: ">> \o name \o <<NL>>
        \o Repeat("=", SeparatorWidth) \o <<NL>>
        \o <<"--- ">> \o name \o <<NL>>
        \o <<"+++ ">> \o name \o <<NL>>
        \o <<"@@ -0,0 +1,">> \o Decimal(nb_lines) \o <<" @@", NL>>
        \o PlusLines(file_content)

OsSeps == {"/", "\\"}

Filenames ==
  {<<"a.txt">>, <<"dir", "/", "a.txt">>, <<"dir", "\\", "sub", "\\", "a.txt">>}

(* Whole lines of a file: text, a line that starts with '+', an empty line *)
(* and a line that ends as on Windows.                                     *)
FileLines ==
  {<<"one", NL>>, <<"+two", NL>>, <<NL>>, <<"three", "\r\n">>}

(* Files of up to MaxFileLines lines; the last line may lack its newline. *)
FileTexts ==
  Concats(FileLines, MaxFileLines)
    \cup {t \o <<"last">> : t \in Concats(FileLines, MaxFileLines - 1)}

CallGenFakeDiff ==
  /\ pc = "idle"
  /\ \E filename \in Filenames, text \in FileTexts, sep \in OsSeps :
       /\ arg' = [filename |-> filename, text |-> text, sep |-> sep]
       /\ result' = GenFakeDiff(filename, text, sep)
  /\ op' = "GenFakeDiff"
  /\ pc' = "done"
  /\ UNCHANGED <<repo, loc, cmds>>
  /\ UNCHANGED process

NextFakeDiff == CallGenFakeDiff \/ Return

SpecFakeDiff == Init /\ [][NextFakeDiff]_vars

-----------------------------------------------------------------------------
(* AssertVersion: the version of git, fetched with 'git --version' and     *)
(* kept in the class attribute current_version.  In a version text a run   *)
(* of digits, a run of lowercase letters and a dot are tokens.             *)

MaxFetches == 3

(* int() of the runs of digits of the model. *)
IntOf == ("1" :> 1) @@ ("2" :> 2) @@ ("9" :> 9) @@ ("10" :> 10)

(* The place of a word in the order of Python strings. *)
StrOrder == ("rc" :> 1) @@ ("windows" :> 2)

(* distutils.version.LooseVersion(vstring).version: the components of the *)
(* text without the dots, the runs of digits as numbers.                   *)
RECURSIVE LooseVersion(_)
LooseVersion(vstring) ==
  IF vstring = <<>> THEN <<>>
  ELSE LET x == Head(vstring)
           rest == LooseVersion(Tail(vstring))
       IN  IF x = "." THEN rest
           ELSE IF x \in DOMAIN IntOf THEN <<[int |-> IntOf[x]]>> \o rest
           ELSE <<[str |-> x]>> \o rest

IsInt(c) == DOMAIN c = {"int"}

(* The first place where two lists of components differ, 0 when one is    *)
(* the beginning of the other.                                             *)
FirstDifference(a, b) ==
  LET common == IF Len(a) < Len(b) THEN Len(a) ELSE Len(b)
      differ == {i \in 1..common : a[i] # b[i]}
  IN  IF differ = {} THEN 0
      ELSE CHOOSE i \in differ : \A j \in differ : i <= j

(* The comparison of two lists raises TypeError when the components that   *)
(* decide it are a number and a word.                                      *)
Incomparable(a, b) ==
  LET i == FirstDifference(a, b)
  IN  i # 0 /\ IsInt(a[i]) # IsInt(b[i])

(* a < b for two components of one kind: numbers by value, words by their  *)
(* order.                                                                  *)
ComponentLess(a, b) ==
  IF IsInt(a) THEN a.int < b.int ELSE StrOrder[a.str] < StrOrder[b.str]

(* min_version <= current_version of two LooseVersion that compare: the    *)
(* order of the two lists of components, decided at the first place they   *)
(* differ, a list that is the beginning of the other being the smaller.    *)
LooseLE(a, b) ==
  LET i == FirstDifference(a, b)
  IN  IF i = 0 THEN Len(a) <= Len(b) ELSE ComponentLess(a[i], b[i])

VersionTexts ==
  {<<"1", ".", "9">>, <<"2", ".", "9">>, <<"2", ".", "10">>,
   <<"2", ".", "10", ".", "rc", "1">>, <<"2", ".", "10", ".", "1">>}

(* What 'git --version' prints, stripped: the version of a git, or a text *)
(* that is not the version line.                                           *)
VersionOutputs ==
  {<<"git version ">> \o v :
     v \in {<<"2", ".", "9">>, <<"2", ".", "10">>,
            <<"2", ".", "10", ".", "windows", ".", "1">>}}
    \cup {<<"usage: git">>, <<>>}

(* re.search(r'git version (.+)', text)[1]: the rest of the line after the *)
(* first 'git version ' when at least one character follows, and a         *)
(* TypeError from subscripting None when the search finds nothing.         *)
SearchVersion(text) ==
  IF \E i \in 1..(Len(text) - 1) : text[i] = "git version "
  THEN LET i == CHOOSE i \in 1..(Len(text) - 1) :
                  /\ text[i] = "git version "
                  /\ \A j \in 1..(i - 1) : text[j] # "git version "
       IN  DropFirst(text, i)
  ELSE TypeError

NeedsFetchAlways(version) == TRUE

(* cls.current_version is None *)
NeedsFetch(version) == version = None

CallAssertVersion ==
  /\ pc = "idle"
  /\ ~NeedsFetch(current_version) \/ version_fetches < MaxFetches
  /\ \E min_version \in VersionTexts :
       arg' = [min_version |-> min_version]
  /\ op' = "AssertVersion"
  /\ pc' = IF NeedsFetch(current_version) THEN "av_fetch" ELSE "av_compare"
  /\ UNCHANGED <<repo, loc, cmds, result>>
  /\ UNCHANGED process

(* Lines 443 to 445: the command fails, or it prints a text in which the   *)
(* version is found or not.                                                *)
FetchVersion ==
  /\ pc = "av_fetch"
  /\ cmds' = Append(cmds, Cmd("--version", Dot))
  /\ version_fetches' = version_fetches + 1
  /\ \/ /\ result' = CalledProcessError
        /\ pc' = "done"
        /\ UNCHANGED <<loc, current_version>>
     \/ \E out \in VersionOutputs :
          LET matched == SearchVersion(out)
          IN  /\ loc' = [loc EXCEPT !.out = out]
              /\ result' = IF matched = TypeError THEN TypeError ELSE result
              /\ pc' = IF matched = TypeError THEN "done" ELSE "av_compare"
              /\ current_version' = IF matched = TypeError
                                    THEN current_version
                                    ELSE LooseVersion(matched)
  /\ UNCHANGED <<op, arg, repo>>

(* Lines 446 and 447. *)
CompareVersion ==
  /\ pc = "av_compare"
  /\ LET min_version == LooseVersion(arg.min_version)
     IN  result' = IF Incomparable(min_version, current_version)
                   THEN TypeError
                   ELSE <<LooseLE(min_version, current_version),
                          current_version>>
  /\ pc' = "done"
  /\ UNCHANGED <<op, arg, repo, loc, cmds>>
  /\ UNCHANGED process

NextVersion == CallAssertVersion \/ FetchVersion \/ CompareVersion \/ Return

SpecVersion == Init /\ [][NextVersion]_vars

Next ==
  \/ NextTranslator
  \/ NextUpstream
  \/ NextRemoteHead
  \/ NextFakeDiff
  \/ NextVersion

Spec == Init /\ [][Next]_vars

-----------------------------------------------------------------------------
(* Claims about the translator, checked under SpecTranslator *)

Returned(name) == op = name /\ pc = "done"

refs_remotes_branch_heads_ == refs_remotes_ \o branch_heads_

(* C5, as stated: for every ref r and remote m for which RefToRemoteRef(r, m) *)
(* returns (prefix, suffix), RemoteRefToRef(prefix + suffix, m) is not None,  *)
(* is 'refs/heads/' + suffix when prefix is 'refs/remotes/<m>/' and is        *)
(* 'refs/branch-heads/' + suffix when prefix is 'refs/remotes/branch-heads/'. *)
(* It is stated here of the remotes that have a name: of the empty name it    *)
(* fails at once, RemoteRefToRef asserting that a remote is given.            *)
C5_RoundTrip ==
  (Returned("RefToRemoteRef") /\ result # None /\ Truthy(arg.remote)) =>
    LET prefix == result[1]
        suffix == result[2]
        back   == RemoteRefToRef(prefix \o suffix, arg.remote)
    IN  /\ back # None
        /\ prefix = refs_remotes_ \o Slash(arg.remote) => back = refs_heads_ \o suffix
        /\ prefix = refs_remotes_branch_heads_ => back = refs_ \o branch_heads_ \o suffix

(* C5, amended: for every ref r and every non-empty remote m for which        *)
(* RefToRemoteRef(r, m) returns (prefix, suffix), RemoteRefToRef(prefix +     *)
(* suffix, m) is not None; it is 'refs/branch-heads/' + suffix when prefix is *)
(* 'refs/remotes/branch-heads/' (also when m is 'branch-heads') and           *)
(* 'refs/heads/' + suffix otherwise.                                          *)
C5_RoundTripAmended ==
  (Returned("RefToRemoteRef") /\ result # None /\ Truthy(arg.remote)) =>
    LET prefix == result[1]
        suffix == result[2]
        back   == RemoteRefToRef(prefix \o suffix, arg.remote)
    IN  /\ back # None
        /\ prefix \in {refs_remotes_branch_heads_, refs_remotes_ \o Slash(arg.remote)}
        /\ IF prefix = refs_remotes_branch_heads_
           THEN back = refs_ \o branch_heads_ \o suffix
           ELSE back = refs_heads_ \o suffix

(* A local branch ref translated under the remote named 'branch-heads': the *)
(* case in which the two prefixes of C5 coincide.                           *)
C5_Witness ==
  /\ Returned("RefToRemoteRef")
  /\ arg.remote = <<"branch-", "heads">>
  /\ arg.ref = refs_heads_ \o <<"foo">>
  /\ result = << refs_remotes_branch_heads_, <<"foo">> >>

(* C6, as stated: for every suffix s and every remote, RefToRemoteRef of     *)
(* 'branch-heads/' + s, 'refs/branch-heads/' + s and                         *)
(* 'refs/remotes/branch-heads/' + s is ('refs/remotes/branch-heads/', s).    *)
(* It is stated here of the remotes that have a name.                        *)
C6_ReleaseBranchRemoteAgnostic ==
  (Returned("RefToRemoteRef") /\ Truthy(arg.remote)) =>
    \A i \in 1..Len(BranchHeadsPattern) :
      (Truthy(arg.ref) /\ StartsWith(arg.ref, BranchHeadsPattern[i])) =>
        result = << refs_remotes_branch_heads_,
                    DropFirst(arg.ref, Len(BranchHeadsPattern[i])) >>

(* C7, as stated: for every remote m and every ref P + s outside the         *)
(* release-branch namespace, with P one of 'refs/remotes/<m>/',              *)
(* 'remotes/<m>/', '<m>/', 'refs/heads/' and 'heads/', RefToRemoteRef(ref,   *)
(* m) is ('refs/remotes/<m>/', s), s being the text of ref after P; a ref    *)
(* matching no pattern, or None, gives None.  It is stated here of the       *)
(* remotes that have a name.                                                 *)
C7_SuffixIsTextAfterPrefix ==
  (Returned("RefToRemoteRef") /\ Truthy(arg.remote)
     /\ Match(BranchHeadsPattern, IF Truthy(arg.ref) THEN arg.ref ELSE <<>>) = None) =>
    LET ref == IF Truthy(arg.ref) THEN arg.ref ELSE <<>>
        P   == RemotePattern(arg.remote)
    IN  /\ \A i \in 1..Len(P) :
             StartsWith(ref, P[i]) =>
               result = << refs_remotes_ \o Slash(arg.remote), DropFirst(ref, Len(P[i])) >>
        /\ (\A i \in 1..Len(P) : ~StartsWith(ref, P[i])) => result = None

(* C8: for a non-empty remote, RemoteRefToRef(ref, remote) is None when ref  *)
(* is empty or does not start with 'refs/'; ref when it starts with 'refs/'  *)
(* but not 'refs/remotes/'; 'refs/branch-heads/<suffix>' for                 *)
(* 'refs/remotes/branch-heads/<suffix>' whatever the remote; otherwise       *)
(* 'refs/heads/<suffix>' for 'refs/remotes/<remote>/<suffix>'; and None for  *)
(* a ref under 'refs/remotes/' of any other remote.                          *)
C8_RemoteRefToRefTable ==
  (Returned("RemoteRefToRef") /\ Truthy(arg.remote)) =>
    LET ref    == arg.ref
        own    == refs_remotes_ \o Slash(arg.remote)
        plain  == Truthy(ref) /\ StartsWith(ref, refs_)
        remote == plain /\ StartsWith(ref, refs_remotes_)
        bh     == remote /\ StartsWith(ref, refs_remotes_branch_heads_)
    IN  /\ ~plain => result = None
        /\ (plain /\ ~remote) => result = ref
        /\ bh => result = refs_ \o branch_heads_
                            \o DropFirst(ref, Len(refs_remotes_branch_heads_))
        /\ (remote /\ ~bh /\ StartsWith(ref, own)) =>
             result = refs_heads_ \o DropFirst(ref, Len(own))
        /\ (remote /\ ~bh /\ ~StartsWith(ref, own)) => result = None

(* A ref of another remote, which RemoteRefToRef refuses. *)
C8_Witness ==
  /\ Returned("RemoteRefToRef")
  /\ arg.remote = origin
  /\ arg.ref = refs_remotes_ \o Slash(fork) \o <<"foo">>
  /\ result = None

-----------------------------------------------------------------------------
(* Claims about the upstream tracker, checked under SpecUpstream *)

merge_key == BranchKey(feature, "merge")

remote_key == BranchKey(feature, "remote")

OrDot(v) == IF v = None THEN Dot ELSE v

KnownBranchCall == op = "FetchUpstreamTuple" /\ Truthy(arg.branch)

(* Whether a config value counts as set: strictly (set and non-empty) or   *)
(* not (set at all).                                                       *)
CountsAsSet(strictly, v) == IF strictly THEN Truthy(v) ELSE v # None

(* The layers of C1, in their order. *)
LayeredTuple(strictly) ==
  IF CountsAsSet(strictly, repo.config[merge_key])
    THEN << OrDot(repo.config[remote_key]), repo.config[merge_key] >>
  ELSE IF CountsAsSet(strictly, repo.config[RietveldBranchKey])
    THEN << OrDot(repo.config[RietveldRemoteKey]), repo.config[RietveldBranchKey] >>
  ELSE IF origin_main \in repo.branches
    THEN << origin, refs_heads_ \o <<"main">> >>
  ELSE IF origin_master \in repo.branches
    THEN << origin, refs_heads_ \o <<"master">> >>
  ELSE << None, None >>

(* C1, as stated: FetchUpstreamTuple(cwd, branch) with a known branch returns *)
(* the first applicable layer: branch.<branch>.merge if that key is set, else *)
(* rietveld.upstream-branch if that key is set, else origin/main, else        *)
(* origin/master, else (None, None); a remote key that is unset gives '.'.    *)
C1_FirstApplicableLayer ==
  (KnownBranchCall /\ pc = "done" /\ result # CalledProcessError) =>
    result = LayeredTuple(FALSE)

(* C1, amended: the same layers, a layer applying when its key is set to a    *)
(* non-empty value (a key set to the empty string is passed over like an      *)
(* unset one); the enumeration command is taken to succeed when it is run.    *)
C1_FirstNonEmptyLayer ==
  (KnownBranchCall /\ pc = "done" /\ result # CalledProcessError) =>
    result = LayeredTuple(TRUE)

(* No key is set, both origin/main and origin/master exist: main wins. *)
C1_Witness ==
  /\ KnownBranchCall /\ pc = "done"
  /\ repo.config[merge_key] = None
  /\ repo.config[RietveldBranchKey] = None
  /\ {origin_main, origin_master} \subseteq repo.branches
  /\ result = << origin, refs_heads_ \o <<"main">> >>

BranchReadsOnly ==
  \A i \in 1..Len(cmds) :
    cmds[i] \in {Cmd("config", merge_key), Cmd("config", remote_key)}

(* C2, as stated: whenever branch.<branch>.merge is set for the branch given  *)
(* to FetchUpstreamTuple, the commands issued are only the two branch-scoped  *)
(* config reads, at every point of the call, and the call returns             *)
(* (remote, merge).                                                           *)
C2_MergeSetReadsOnlyBranchKeys ==
  (KnownBranchCall /\ repo.config[merge_key] # None) =>
    /\ BranchReadsOnly
    /\ pc = "done" =>
         /\ result = << OrDot(repo.config[remote_key]), repo.config[merge_key] >>
         /\ cmds = << Cmd("config", merge_key), Cmd("config", remote_key) >>

(* C2, amended: the same whenever branch.<branch>.merge is set to a non-empty *)
(* value.                                                                     *)
C2_MergeNonEmptyReadsOnlyBranchKeys ==
  (KnownBranchCall /\ Truthy(repo.config[merge_key])) =>
    /\ BranchReadsOnly
    /\ pc = "done" =>
         /\ result = << OrDot(repo.config[remote_key]), repo.config[merge_key] >>
         /\ cmds = << Cmd("config", merge_key), Cmd("config", remote_key) >>

(* The branch layer answers although the legacy key is set and origin/main    *)
(* exists.                                                                    *)
C2_Witness ==
  /\ KnownBranchCall /\ pc = "done"
  /\ repo.config[merge_key] = refs_heads_ \o <<"main">>
  /\ repo.config[remote_key] = origin
  /\ Truthy(repo.config[RietveldBranchKey])
  /\ origin_main \in repo.branches
  /\ result = << origin, refs_heads_ \o <<"main">> >>
  /\ Len(cmds) = 2

DetachedCall ==
  /\ op = "FetchUpstreamTuple"
  /\ arg.branch = None
  /\ repo.symref[HEAD] = None

(* C3, as stated: FetchUpstreamTuple(cwd) with no branch argument and a       *)
(* detached HEAD returns (None, None), whatever the rietveld.* values and the *)
(* remote branches are.                                                       *)
C3_DetachedGivesNoUpstream ==
  (DetachedCall /\ pc = "done" /\ result # CalledProcessError) =>
    result = << None, None >>

(* C3, amended: with no branch argument and a detached HEAD the branch-scoped *)
(* layer is skipped (no branch.* key is read) and the call gives what the     *)
(* other layers give: (rietveld.upstream-remote or '.', rietveld.upstream-    *)
(* branch) if that key is set and non-empty; else ('origin',                  *)
(* 'refs/heads/main') or ('origin', 'refs/heads/master') by the remote        *)
(* branches; else (None, None).  A failure of the enumeration command is      *)
(* raised to the caller.                                                      *)
C3_DetachedFallsThrough ==
  DetachedCall =>
    /\ \A i \in 1..Len(cmds) :
         cmds[i] \in {Cmd("symbolic-ref", HEAD), Cmd("config", RietveldBranchKey),
                      Cmd("config", RietveldRemoteKey), Cmd("branch", <<"-r">>)}
    /\ pc = "done" =>
         result =
           IF Truthy(repo.config[RietveldBranchKey])
             THEN << OrDot(repo.config[RietveldRemoteKey]), repo.config[RietveldBranchKey] >>
           ELSE IF ~repo.branchesOk THEN CalledProcessError
           ELSE IF origin_main \in repo.branches
             THEN << origin, refs_heads_ \o <<"main">> >>
           ELSE IF origin_master \in repo.branches
             THEN << origin, refs_heads_ \o <<"master">> >>
           ELSE << None, None >>

(* HEAD is detached and the legacy keys name an upstream, which is returned.  *)
C3_Witness ==
  /\ DetachedCall /\ pc = "done"
  /\ repo.config[RietveldBranchKey] = refs_heads_ \o <<"foo">>
  /\ repo.config[RietveldRemoteKey] = fork
  /\ result = << fork, refs_heads_ \o <<"foo">> >>

(* C9, as stated: GetUpstreamBranch gives, for a tuple (remote, ref) with ref *)
(* present, prefix + suffix of RefToRemoteRef(ref, remote), a string starting *)
(* with 'refs/remotes/', if remote is not '.'; the raw ref if remote is '.';  *)
(* and None for the tuple (None, None).                                       *)
C9_UpstreamBranchIsRemoteTracking ==
  Returned("GetUpstreamBranch") /\ result # CalledProcessError =>
    LET remote == loc.tuple[1]
        ref    == loc.tuple[2]
    IN  /\ (ref # None /\ remote # Dot) =>
             /\ RefToRemoteRef(ref, remote) # None
             /\ result = Join(RefToRemoteRef(ref, remote))
             /\ StartsWith(result, refs_remotes_)
        /\ (ref # None /\ remote = Dot) => result = ref
        /\ loc.tuple = << None, None >> => result = None

(* C9, amended: for a tuple (remote, ref) with ref present and remote not     *)
(* '.', the result is prefix + suffix of RefToRemoteRef(ref, remote), a       *)
(* string starting with 'refs/remotes/', if RefToRemoteRef recognises the     *)
(* ref, and the raw ref unchanged if it returns None; the raw ref if remote   *)
(* is '.'; None for the tuple (None, None).                                   *)
C9_UpstreamBranchTranslatedIfRecognised ==
  Returned("GetUpstreamBranch") /\ result # CalledProcessError =>
    LET remote == loc.tuple[1]
        ref    == loc.tuple[2]
    IN  /\ (ref # None /\ remote # Dot /\ RefToRemoteRef(ref, remote) # None) =>
             /\ result = RefToRemoteRef(ref, remote)[1] \o RefToRemoteRef(ref, remote)[2]
             /\ StartsWith(result, refs_remotes_)
        /\ (ref # None /\ remote # Dot /\ RefToRemoteRef(ref, remote) = None) =>
             result = ref
        /\ (ref # None /\ remote = Dot) => result = ref
        /\ loc.tuple = << None, None >> => result = None

(* The current branch tracks refs/heads/main of origin: the ref is rewritten. *)
C9_Witness ==
  /\ Returned("GetUpstreamBranch")
  /\ loc.tuple = << origin, refs_heads_ \o <<"main">> >>
  /\ result = refs_remotes_ \o origin_main

DiffRan ==
  /\ Returned("CaptureStatus")
  /\ cmds # <<>>
  /\ cmds[Len(cmds)].name = "diff"
  /\ result # CalledProcessError

(* The pair C10 states for a line: the first letter of the status code and *)
(* six spaces, and the text after the tab.                                 *)
StatusPairFirstLetter(line) ==
  << <<line[1], SixSpaces>>, DropFirst(line, FirstTab(line, 1)) >>

(* C10, as stated: CaptureStatus returns, for an output made only of lines    *)
(* '<status-code><TAB><path>', one pair per line in line order, the status    *)
(* being the first letter of the status code followed by six spaces and the   *)
(* path the text after the tab; it raises gclient_utils.Error if any line     *)
(* lacks that shape; empty output gives the empty list.                       *)
C10_StatusPairsFirstLetter ==
  DiffRan =>
    IF \A i \in 1..Len(loc.out) : StatusMatches(loc.out[i])
    THEN result = [i \in 1..Len(loc.out) |-> StatusPairFirstLetter(loc.out[i])]
    ELSE result = GclientError

-----------------------------------------------------------------------------
(* Claims about GetRemoteHeadRef, checked under SpecRemoteHead *)

(* C4, as stated: GetRemoteHeadRef never raises and always returns a ref     *)
(* string, whatever each of symbolic-ref, remote set-head and ls-remote does *)
(* (also when the ls-remote symref line names a ref outside the heads,       *)
(* remote and branch-heads namespaces); when every query fails it returns    *)
(* 'refs/remotes/<remote>/main'.                                             *)
C4_AlwaysReturnsARef ==
  Returned("GetRemoteHeadRef") =>
    /\ result \notin Exceptions
    /\ result # None
    /\ (loc.out = <<>> /\ cmds[Len(cmds)].name = "ls-remote --symref") =>
         result = DefaultHeadRef(arg.remote)

(* What the first 'symbolic-ref refs/remotes/<remote>/HEAD' printed, once it *)
(* has run in a working directory that exists: an answer that is not        *)
(* trusted is kept in ref, and only then can the mirror have moved since.   *)
FirstRead ==
  IF loc.ref # None THEN loc.ref ELSE repo.symref[MirrorHead(arg.remote)]

LocalReadDone ==
  /\ op = "GetRemoteHeadRef"
  /\ arg.cwdExists
  /\ cmds # <<>>

(* C13, as stated: when the working directory exists and the first read of  *)
(* refs/remotes/<remote>/HEAD points at master, the commands are the read   *)
(* of refs/remotes/<remote>/HEAD, 'remote set-head -a <remote>', and the    *)
(* read of refs/remotes/<remote>/HEAD again, whose answer is returned: if   *)
(* the refresh moved the mirror to main, 'refs/remotes/<remote>/main'.      *)
C13_RefreshThenRereadHead ==
  (LocalReadDone /\ FirstRead = RemoteBranch(arg.remote, master)) =>
    /\ cmds[1] = Cmd("symbolic-ref", MirrorHead(arg.remote))
    /\ Len(cmds) >= 2 => cmds[2] = Cmd("remote set-head -a", arg.remote)
    /\ (Len(cmds) >= 3 /\ pc # "grh_remote" /\ cmds[2].name = "remote set-head -a"
          /\ cmds[3].name = "symbolic-ref") =>
         cmds[3] = Cmd("symbolic-ref", MirrorHead(arg.remote))
    /\ (pc = "done" /\ repo.symref[MirrorHead(arg.remote)]
                         = RemoteBranch(arg.remote, <<"main">>)) =>
         result = RemoteBranch(arg.remote, <<"main">>)

(* C14, as stated: when the working directory exists and                    *)
(* refs/remotes/<remote>/HEAD resolves to refs/remotes/<remote>/<b> for a   *)
(* branch b whose name is not literally 'master' (a name that only ends in  *)
(* 'master' included), the call returns that ref as it is and issues no     *)
(* further command: no 'remote set-head', no 'ls-remote'.                   *)
C14_OtherBranchIsTrusted ==
  (LocalReadDone /\ \E b \in HeadNames \ {master} :
                      FirstRead = RemoteBranch(arg.remote, b)) =>
    /\ pc = "done"
    /\ result = FirstRead
    /\ cmds = << Cmd("symbolic-ref", MirrorHead(arg.remote)) >>

(* The lines of the header of a fake diff, each with its newline. *)
FakeDiffHeader(name, n) ==
  << <<"Index: ">> \o name \o <<NL>>,
     [i \in 1..SeparatorWidth |-> "="] \o <<NL>>,
     <<"--- ">> \o name \o <<NL>>,
     <<"+++ ">> \o name \o <<NL>>,
     <<"@@ -0,0 +1,">> \o Decimal(n) \o <<" @@", NL>> >>

(* C12: GenFakeDiff(filename) on a file of N lines returns, in this order, *)
(* 'Index: <name>', a line of exactly 67 '=', '--- <name>', '+++ <name>',  *)
(* the hunk header '@@ -0,0 +1,N @@', and then exactly N body lines, the   *)
(* i-th being '+' followed by the i-th line of the file unchanged; <name>  *)
(* is the filename with '/' for the separator of the platform.             *)
C12_FakeDiffLayout ==
  Returned("GenFakeDiff") =>
    LET file == SplitLines(arg.text)
        N == Len(file)
        name == ReplaceSep(arg.filename, arg.sep)
        lines == SplitLines(result)
    IN  /\ arg.sep \notin {name[i] : i \in 1..Len(name)} \/ arg.sep = "/"
        /\ Len(lines) = 5 + N
        /\ SubSeq(lines, 1, 5) = FakeDiffHeader(name, N)
        /\ Len(lines[2]) = 67 + 1
        /\ \A i \in 1..N : lines[5 + i] = <<"+">> \o file[i]

(* A file of three lines under a Windows path has been turned into a diff. *)
C12_Witness ==
  /\ Returned("GenFakeDiff")
  /\ Len(SplitLines(arg.text)) = 3
  /\ arg.sep = "\\"
  /\ arg.filename = <<"dir", "\\", "sub", "\\", "a.txt">>
  /\ SubSeq(result, 1, 7) = <<"Index: ", "dir", "/", "sub", "/", "a.txt", NL>>

(* A call of AssertVersion has run 'git --version'. *)
Fetching == op = "AssertVersion" /\ cmds # <<>>

(* C11, as stated: across any sequence of AssertVersion calls in one       *)
(* process, with any min_version, 'git --version' is run at most once, and *)
(* every call that returns returns                                         *)
(* (min_version <= memoized version, memoized version) of that one fetched *)
(* value.                                                                  *)
C11_FetchedAtMostOnce ==
  /\ version_fetches <= 1
  /\ (Returned("AssertVersion") /\ result \notin Exceptions) =>
       /\ current_version # None
       /\ result = <<LooseLE(LooseVersion(arg.min_version), current_version),
                     current_version>>

(* C11, amended: once a call has fetched the version and found it in the   *)
(* output, no call runs 'git --version' again and the memoized version     *)
(* does not change; a call that fetches is one that found nothing          *)
(* memoized, and a fetch that fails or whose output holds no version       *)
(* raises and memoizes nothing.  A call returns                            *)
(* (min_version <= memoized version, memoized version), or raises          *)
(* TypeError when the comparison is decided between a number and a word.   *)
C11_MemoizedOnceFetched ==
  [][ /\ current_version # None =>
           /\ current_version' = current_version
           /\ version_fetches' = version_fetches
           /\ cmds' = cmds \/ cmds' = <<>>
      /\ version_fetches' # version_fetches =>
           /\ version_fetches' = version_fetches + 1
           /\ current_version = None
           /\ cmds' = Append(cmds, Cmd("--version", Dot))
           /\ current_version' = None <=>
                result' \in {CalledProcessError, TypeError}
      /\ (op' = "AssertVersion" /\ pc' = "done"
            /\ result' \notin {CalledProcessError, TypeError}) =>
           LET min_version == LooseVersion(arg'.min_version)
           IN  /\ current_version' # None
               /\ ~Incomparable(min_version, current_version')
               /\ result' = <<LooseLE(min_version, current_version'),
                              current_version'>>
      /\ (op' = "AssertVersion" /\ pc' = "done" /\ result' = TypeError
            /\ current_version' # None) =>
           Incomparable(LooseVersion(arg'.min_version), current_version')
    ]_vars

(* A call that found git 2.10 memoized has run no command and has answered *)
(* that 2.9 <= 2.10, which the order of the texts would deny.              *)
C11_Witness ==
  /\ Returned("AssertVersion")
  /\ version_fetches = 1
  /\ cmds = <<>>
  /\ arg.min_version = <<"2", ".", "9">>
  /\ current_version = <<[int |-> 2], [int |-> 10]>>
  /\ result = <<TRUE, current_version>>

====
